---------------------------- MODULE Spec2Model ----------------------------
(***************************************************************************)
(* Arduino-Shell (src/Shell.h): the script interpreter Shell::execute, its *)
(* parameter stack with the cached top-of-stack register, the frame        *)
(* pointer, the stack marker and the variable table, as a state machine.   *)
(* One step is one iteration of the loop of execute() (tokenizer, then the *)
(* dispatched operation code), one return of an execute() call, or one     *)
(* call of the public stack interface by the host.                         *)
(*                                                                         *)
(* Memory layout.  m_var[VAR_MAX] and m_stack[STACK_MAX] are consecutive   *)
(* members of Shell (src/Shell.h:893-894); read() and write() address both *)
(* through m_var and '$' computes addresses relative to m_var, so the two  *)
(* arrays are one array ram of VAR_MAX + STACK_MAX cells: m_var[i] is      *)
(* ram[i], m_stack[k] is ram[VAR_MAX + k].  m_sp and m_fp are pointers     *)
(* into it, counted in cells.  A read of a cell outside ram yields an      *)
(* arbitrary value (the parameter wild of the step), a write outside ram   *)
(* is not tracked; every access of a cell outside m_stack made through     *)
(* the stack pointers is recorded in oob.                                  *)
(*                                                                         *)
(* Dictionary.  The eeprom is an array of bytes; lookup() and the          *)
(* back-tick operation read and write it at the addresses the constructor  *)
(* computes for m_dict and m_dp, with 16-bit pointers stored low byte      *)
(* first.  Trace mode is the flag m_trace, the cycle counter m_cycle and   *)
(* the number of trace lines printed.                                      *)
(*                                                                         *)
(* TagSpec is a second specification for the mapping of script addresses   *)
(* to the linear address space on its own (as_addr, access, as_local).     *)
(***************************************************************************)
EXTENDS Integers, Sequences, FiniteSets, TLC

\* ------------------------------------------------------------------ bounds

\* Template parameters of Shell (src/Shell.h:39), instantiated small.
STACK_MAX == 5
VAR_MAX == 2

\* Number of words of a generated script.
MaxWords == 2

\* Number of calls of the public stack interface after the script returned.
MaxCalls == 2

\* Number of loop iterations of all execute() calls of one run.
MaxSteps == 40

\* Address of the first byte of the script in data memory.
ScriptBase == 32

\* Number of bytes of the eeprom.
EepromSize == 24

\* ------------------------------------------------------ characters, values

\* The null terminator of a script.
NUL == "NUL"

\* The double quote and the back-tick, written as names.
DQ == "DQ"
BQ == "BQ"

Printable ==
 << " ", "!", DQ, "#", "$", "%", "&", "'", "(", ")", "*", "+", ",", "-",
    ".", "/", "0", "1", "2", "3", "4", "5", "6", "7", "8", "9", ":", ";",
    "<", "=", ">", "?", "@", "A", "B", "C", "D", "E", "F", "G", "H", "I",
    "J", "K", "L", "M", "N", "O", "P", "Q", "R", "S", "T", "U", "V", "W",
    "X", "Y", "Z", "[", "\\", "]", "^", "_", BQ, "a", "b", "c", "d", "e",
    "f", "g", "h", "i", "j", "k", "l", "m", "n", "o", "p", "q", "r", "s",
    "t", "u", "v", "w", "x", "y", "z", "{", "|", "}", "~" >>

\* The character code of c (a char converted to int).
Ord(c) ==
  IF c = NUL THEN 0
  ELSE 31 + (CHOOSE k \in 1..Len(Printable) : Printable[k] = c)

\* int of the target: 16 bits, two's complement.
IntBits == 16

Wrap(x) ==
  LET m == 2 ^ IntBits
      r == x % m
  IN  IF r >= m \div 2 THEN r - m ELSE r

\* Values a cell outside the modelled memory may hold.
Wild == {0, 1}

\* The byte read through a script pointer that points outside the script.
WildChar(wild) == IF wild = 0 THEN NUL ELSE "Q"

\* sizeof(char*), sizeof(int) and sizeof(dict_t) of the target.
PtrSize == 2
DictSize == 4

\* The value of an erased eeprom byte.
Blank == 255

\* ------------------------------------------------------------------ state

VARIABLES
  text,      \* the script handed to execute(), without its null terminator
  m_sp,      \* stack pointer
  m_fp,      \* frame pointer
  m_tos,     \* top of stack register
  m_marker,  \* stack marker
  ram,       \* m_var followed by m_stack
  cs,        \* the active execute() calls, innermost last
  rv,        \* value returned by the last execute() call that returned
  ran,       \* the host has called execute(script)
  calls,     \* number of host calls of the stack interface
  steps,     \* number of loop iterations executed
  oob,       \* a stack access outside m_stack has happened
  last,      \* what the last step did
  trail,     \* the operation codes handed to the switch so far, in order
  m_entries, \* dictionary entries
  m_dp,      \* dictionary pointer (in eeprom)
  eeprom,    \* the bytes of the eeprom
  m_trace,   \* trace mode
  m_cycle,   \* cycle counter
  lines,     \* number of trace lines printed
  tag        \* a local address on its way through as_addr, access, as_local

vars == << text, m_sp, m_fp, m_tos, m_marker, ram, cs, rv, ran, calls, steps,
           oob, last, trail, m_entries, m_dp, eeprom, m_trace, m_cycle,
           lines, tag >>

\* m_dict: (dict_t*) sizeof(m_dp) + sizeof(m_entries), the sum being
\* pointer arithmetic on dict_t* (the cast binds before the +).
DictBase == PtrSize + 1 * DictSize

\* The initial m_dp: (char*) sizeof(m_dp) + sizeof(m_entries)
\* + (sizeof(dict_t) * VAR_MAX).
NamesBase == PtrSize + 1 + DictSize * VAR_MAX

StackLo == VAR_MAX
StackEnd == VAR_MAX + STACK_MAX

InRam(a) == a \in 0..(StackEnd - 1)
InStack(a) == a \in StackLo..(StackEnd - 1)

\* The Shell object as a record; wild is the value of unmodelled cells.
Self(wild) ==
  [ sp |-> m_sp, fp |-> m_fp, tos |-> m_tos, marker |-> m_marker,
    ram |-> ram, oob |-> oob, wild |-> wild,
    entries |-> m_entries, dp |-> m_dp, eeprom |-> eeprom,
    trace |-> m_trace, cycle |-> m_cycle, lines |-> lines ]

\* The members of S become the state.
Members(S) ==
  /\ m_sp' = S.sp
  /\ m_fp' = S.fp
  /\ m_tos' = S.tos
  /\ m_marker' = S.marker
  /\ ram' = S.ram
  /\ oob' = S.oob
  /\ m_entries' = S.entries
  /\ m_dp' = S.dp
  /\ eeprom' = S.eeprom
  /\ m_trace' = S.trace
  /\ m_cycle' = S.cycle
  /\ lines' = S.lines

\* *p for a pointer p derived from m_sp or m_fp.
load(S, a) == IF InRam(a) THEN S.ram[a] ELSE S.wild

\* The access of *p is recorded.
touch(S, a) == [S EXCEPT !.oob = @ \/ ~InStack(a)]

\* *p = v for a pointer p derived from m_sp or m_fp.
store(S, a, v) ==
  [S EXCEPT !.ram = IF InRam(a) THEN [@ EXCEPT ![a] = v] ELSE @,
            !.oob = @ \/ ~InStack(a)]

\* ------------------------------------------------------- stack primitives

depth(S) == StackEnd - S.sp

tos_set(S, v) == [S EXCEPT !.tos = v]

drop(S) ==
  IF depth(S) > 0
    THEN [touch(S, S.sp) EXCEPT !.tos = load(S, S.sp), !.sp = S.sp + 1]
    ELSE [S EXCEPT !.tos = 0]

\* pop() returns pop_res(S) and leaves the state pop(S).
pop_res(S) == S.tos

\* pop() without the advance of m_sp: the popped cell stays on the stack.
pop_in_place(S) ==
  IF depth(S) > 0
    THEN [touch(S, S.sp) EXCEPT !.tos = load(S, S.sp)]
    ELSE [S EXCEPT !.tos = 0]

pop(S) ==
  IF depth(S) > 0
    THEN [touch(S, S.sp) EXCEPT !.tos = load(S, S.sp), !.sp = S.sp + 1]
    ELSE [S EXCEPT !.tos = 0]

push(S, v) ==
  IF depth(S) # STACK_MAX
    THEN [store(S, S.sp - 1, S.tos) EXCEPT !.sp = S.sp - 1, !.tos = v]
    ELSE [S EXCEPT !.tos = v]

clear(S) == [S EXCEPT !.sp = StackEnd]

\* read() with the variable table as its range.
read_variables(S, addr) ==
  IF addr < 0 \/ addr >= VAR_MAX THEN 0 ELSE S.ram[addr]

read(S, addr) ==
  IF addr < 0 \/ addr >= VAR_MAX + STACK_MAX THEN 0 ELSE S.ram[addr]

write(S, addr, value) ==
  IF addr < 0 \/ addr >= VAR_MAX + STACK_MAX
    THEN S
    ELSE [S EXCEPT !.ram[addr] = value]

\* The truth value of C, 1, in place of -1.
as_bool_c(value) == IF value THEN 1 ELSE 0

as_bool(value) == IF value THEN -1 ELSE 0


\* ------------------------------------------------------ address spaces

\* Offset of the eeprom in the linear address space.
NVM_BASE == 16384

access(ip) ==
  IF ip < 0 THEN "PGM" ELSE IF ip > NVM_BASE THEN "EEM" ELSE "RAM"

\* Pointers have the width of int; a pointer is held as the int it
\* converts to.
as_addr(mem, src) ==
  CASE mem = "PGM" -> Wrap(-src)
    [] mem = "EEM" -> Wrap(src + NVM_BASE)
    [] OTHER -> src

as_local(mem, src) ==
  CASE mem = "PGM" -> Wrap(-src)
    [] mem = "EEM" -> Wrap(src - NVM_BASE)
    [] OTHER -> src

\* The byte at local address a of the memory mem.  The script occupies
\* ScriptBase .. ScriptBase + Len(text), its last byte the null terminator.
next(mem, a, wild) ==
  IF mem = "RAM" /\ a - ScriptBase \in 0..Len(text)
    THEN IF a - ScriptBase = Len(text) THEN NUL ELSE text[a - ScriptBase + 1]
    ELSE WildChar(wild)

\* ------------------------------------------------------------ tokenizer

DecDigits == {"0", "1", "2", "3", "4", "5", "6", "7", "8", "9"}
HexLetters == {"a", "b", "c", "d", "e", "f"}

\* c >= 'a'
FromLowerA(c) == c # NUL /\ Ord(c) >= Ord("a")

is_digit(c, base) ==
  IF base = 2 THEN c \in {"0", "1"}
  ELSE IF base = 16 /\ FromLowerA(c) THEN c \in HexLetters
  ELSE c \in DecDigits

\* One round of the do-while loop of the literal: op is a digit, ip points
\* behind it.  Yields the number, the character that ended it and ip.
RECURSIVE literal(_, _, _, _, _, _)
literal(mem, ip, op, w, base, wild) ==
  LET w1 == IF base = 16 /\ FromLowerA(op)
              THEN Wrap(w * base + (Ord(op) - Ord("a")) + 10)
              ELSE Wrap(w * base + (Ord(op) - Ord("0")))
      op1 == next(mem, ip, wild)
  IN  IF is_digit(op1, base)
        THEN literal(mem, ip + 1, op1, w1, base, wild)
        ELSE [w |-> w1, op |-> op1, ip |-> ip + 1]

\* An activation of execute(script): its locals.
Frame(script, S) ==
  [ script |-> script, mem |-> access(script),
    ip |-> as_local(access(script), script), fp |-> S.fp,
    neg |-> FALSE, base |-> 10, len |-> 0,
    wait |-> "none", sp |-> 0, i |-> 0, high |-> 0 ]

\* Lines 303-322 of an iteration: the character op0 fetched at f.ip, then
\* the sign of a negative number or a base prefix.  Yields the character
\* the literal check sees, ip, neg and base.
Prefix(f, S, op0, ip0) ==
  IF op0 = "-"
    THEN IF next(f.mem, ip0, S.wild) \notin DecDigits
           THEN [op |-> "-", ip |-> ip0, neg |-> f.neg, base |-> f.base]
           ELSE [op |-> next(f.mem, ip0, S.wild), ip |-> ip0 + 1,
                 neg |-> TRUE, base |-> f.base]
  ELSE IF op0 = "0"
    THEN IF next(f.mem, ip0, S.wild) = "x"
           THEN [op |-> next(f.mem, ip0 + 1, S.wild), ip |-> ip0 + 2,
                 neg |-> f.neg, base |-> 16]
         ELSE IF next(f.mem, ip0, S.wild) = "b"
           THEN [op |-> next(f.mem, ip0 + 1, S.wild), ip |-> ip0 + 2,
                 neg |-> f.neg, base |-> 2]
         ELSE [op |-> next(f.mem, ip0 - 1, S.wild), ip |-> ip0,
               neg |-> f.neg, base |-> f.base]
  ELSE [op |-> op0, ip |-> ip0, neg |-> f.neg, base |-> f.base]

\* Lines 325-341: the literal d read behind the prefix a is pushed.
Pushed(S, a, d) ==
  [ exit |-> d.op = NUL, op |-> d.op, ip |-> d.ip, neg |-> FALSE,
    base |-> 10, S |-> push(S, IF a.neg THEN Wrap(-d.w) ELSE d.w) ]

Literal(f, S, a) ==
  IF is_digit(a.op, a.base)
    THEN Pushed(S, a, literal(f.mem, a.ip, a.op, 0, a.base, S.wild))
    ELSE [ exit |-> FALSE, op |-> a.op, ip |-> a.ip, neg |-> a.neg,
           base |-> a.base, S |-> S ]

\* The head of one loop iteration of frame f in state S: the character
\* fetched, the sign and base prefixes and the literal.  exit: the loop
\* ends (null terminator at the head, or right behind a literal); else op
\* is the character handed to the switch, S the state after the literal.
\* (The translation of a newline to 'N' is left out: no script of the
\* model contains a newline.)
Tok(f, S) ==
  IF next(f.mem, f.ip, S.wild) = NUL
    THEN [ exit |-> TRUE, op |-> NUL, ip |-> f.ip + 1, neg |-> f.neg,
           base |-> f.base, S |-> S ]
    ELSE Literal(f, S, Prefix(f, S, next(f.mem, f.ip, S.wild), f.ip + 1))

\* ------------------------------------------- operations of the switch

\* case 'n' '+' '-' '*'
Arithmetic(op, S) ==
  CASE op = "n" -> tos_set(S, Wrap(-S.tos))
    [] op = "+" -> tos_set(pop(S), Wrap(pop(S).tos + pop_res(S)))
    [] op = "-" -> tos_set(pop(S), Wrap(pop(S).tos - pop_res(S)))
    [] op = "*" -> tos_set(pop(S), Wrap(pop(S).tos * pop_res(S)))

\* case 'F' 'T' '=' '#' '<' '>'
Comparison(op, S) ==
  CASE op = "F" -> push(S, 0)
    [] op = "T" -> push(S, -1)
    [] op = "=" -> tos_set(pop(S), as_bool(pop(S).tos = pop_res(S)))
    [] op = "#" -> tos_set(pop(S), as_bool(pop(S).tos # pop_res(S)))
    [] op = "<" -> tos_set(pop(S), as_bool(pop(S).tos < pop_res(S)))
    [] op = ">" -> tos_set(pop(S), as_bool(pop(S).tos > pop_res(S)))

\* case '~'
BitNot(S) == tos_set(S, -S.tos - 1)

\* A roll that shifts nothing.
roll_shift_none(S, n) == S

\* The loop of 'g': for (; n > 0; n--) m_sp[n] = m_sp[n - 1].
RECURSIVE roll_shift(_, _)
roll_shift(S, n) ==
  IF n > 0
    THEN roll_shift(store(touch(S, S.sp + n - 1), S.sp + n,
                          load(S, S.sp + n - 1)), n - 1)
    ELSE S

\* A pick that counts the elements under the count from 0.
pick_from_zero(S) == tos_set(touch(S, S.sp + S.tos), load(S, S.sp + S.tos))

\* case 'p': tos(*(m_sp + tos() - 1)).
pick(S) == tos_set(touch(S, S.sp + S.tos - 1), load(S, S.sp + S.tos - 1))

\* case 'c' 'd' 'g' 'j' 'o' 'p' 'r' 's' 'q' 'u'
StackOp(op, S) ==
  CASE op = "c" ->
         IF S.tos > 0 /\ S.tos < depth(S)
           THEN drop([S EXCEPT !.sp = S.sp + S.tos])
           ELSE drop(S)
    [] op = "d" -> drop(S)
    [] op = "g" ->
         IF S.tos > 0 /\ S.tos < depth(S)
           THEN LET n == S.tos - 1
                    S1 == tos_set(touch(S, S.sp + n), load(S, S.sp + n))
                    S2 == roll_shift(S1, n)
                IN  [S2 EXCEPT !.sp = S2.sp + 1]
           ELSE drop(S)
    [] op = "j" -> push(S, depth(S))
    [] op = "o" -> push(touch(S, S.sp), load(S, S.sp))
    [] op = "p" -> pick(S)
    [] op = "r" ->
         LET w == S.tos
             S1 == tos_set(touch(S, S.sp + 1), load(S, S.sp + 1))
             S2 == store(touch(S1, S1.sp), S1.sp + 1, load(S1, S1.sp))
         IN  store(S2, S2.sp, w)
    [] op = "s" ->
         LET w == S.tos
             S1 == tos_set(touch(S, S.sp), load(S, S.sp))
         IN  store(S1, S1.sp, w)
    [] op = "q" -> IF S.tos = 0 THEN S ELSE push(S, S.tos)
    [] op = "u" -> push(S, S.tos)

\* case '@' '!'
MemoryOp(op, S) ==
  CASE op = "@" -> tos_set(S, read(S, S.tos))
    [] op = "!" ->
         LET addr == pop_res(S)
             w == pop_res(pop(S))
         IN  write(pop(pop(S)), addr, w)

\* A frame resolve that moves the frame pointer and copies nothing.
frame_copy_none(S, n) == [S EXCEPT !.fp = S.fp - n]

\* The loop of the frame resolve: while (n--) *--m_fp = m_sp[n].
RECURSIVE frame_copy(_, _)
frame_copy(S, n) ==
  IF n # 0
    THEN LET S1 == store(touch(S, S.sp + n - 1), S.fp - 1,
                         load(S, S.sp + n - 1))
         IN  frame_copy([S1 EXCEPT !.fp = S.fp - 1], n - 1)
    ELSE S

\* case '\\' '$'
FrameOp(op, S) ==
  CASE op = "\\" ->
         LET n == pop_res(S)
             S1 == pop(S)
         IN  IF n > 0
               THEN [S1 EXCEPT !.fp = S1.sp + n - 1]
               ELSE LET m == S1.fp - S1.sp + n
                    IN  IF m >= 0
                          THEN LET S2 == frame_copy(S1, m)
                               IN  [S2 EXCEPT !.sp = S2.fp]
                          ELSE drop([S1 EXCEPT !.sp = S1.fp])
    [] op = "$" -> tos_set(S, S.fp - S.tos)

\* case '[' ']' '\'': ip is the position behind the opcode; yields the
\* state and the new ip.  An inactive ']' falls through to the quote.
MarkerOp(op, mem, ip, S) ==
  IF op = "[" /\ S.marker = -1
    THEN [S |-> [S EXCEPT !.marker = depth(S)], ip |-> ip]
  ELSE IF op = "["
    THEN [S |-> S, ip |-> ip]
  ELSE IF op = "]" /\ S.marker # -1
    THEN [S |-> [push(S, depth(S) - S.marker) EXCEPT !.marker = -1],
          ip |-> ip]
  ELSE LET c == next(mem, ip, S.wild)
       IN  IF c # NUL
             THEN [S |-> push(S, Ord(c)), ip |-> ip + 1]
             ELSE [S |-> S, ip |-> ip]

\* The loop of the special forms: counts left and right until the count
\* is 0 or the null terminator is read.  ip points behind the character
\* read last, op.
RECURSIVE form_scan(_, _, _, _, _, _)
form_scan(mem, ip, n, left, right, wild) ==
  LET op == next(mem, ip, wild)
      n1 == IF op = left THEN n + 1 ELSE IF op = right THEN n - 1 ELSE n
  IN  IF op = NUL \/ n1 = 0
        THEN [op |-> op, ip |-> ip + 1]
        ELSE form_scan(mem, ip + 1, n1, left, right, wild)

\* ------------------------------------------------------- dictionary

\* isalnum(c)
Alnum ==
  { Printable[k] : k \in { j \in 1..Len(Printable) :
      \/ j + 31 \in Ord("0")..Ord("9")
      \/ j + 31 \in Ord("A")..Ord("Z")
      \/ j + 31 \in Ord("a")..Ord("z") } }

\* eeprom_read_byte, eeprom_update_byte; the bytes of the eeprom the
\* model does not hold read as erased and are not written.
eeprom_read_byte(E, a) == IF a \in DOMAIN E THEN E[a] ELSE Blank

eeprom_update_byte(E, a, b) ==
  IF a \in DOMAIN E THEN [E EXCEPT ![a] = b] ELSE E

\* eeprom_read_word and the update of a word, low byte first.
eeprom_read_word(E, a) ==
  eeprom_read_byte(E, a) + 256 * eeprom_read_byte(E, a + 1)

eeprom_update_word(E, a, w) ==
  eeprom_update_byte(eeprom_update_byte(E, a, w % 256), a + 1,
                     (w \div 256) % 256)

\* eeprom_update_block(name, a, len)
RECURSIVE eeprom_update_block(_, _, _)
eeprom_update_block(E, a, name) ==
  IF name = << >> THEN E
  ELSE eeprom_update_block(eeprom_update_byte(E, a, Ord(Head(name))),
                           a + 1, Tail(name))

\* &m_dict[i].name
NameField(i) == DictBase + DictSize * i

\* The inner loop of lookup(): the name at np equals name and ends there.
name_match(E, np, name) ==
  /\ \A j \in 1..Len(name) :
       eeprom_read_byte(E, np + j - 1) = Ord(name[j])
  /\ eeprom_read_byte(E, np + Len(name)) = 0

\* The entries the outer loop of lookup() accepts.
Matches(S, name) ==
  { i \in 0..(S.entries - 1) :
      name_match(S.eeprom, eeprom_read_word(S.eeprom, NameField(i)), name) }

\* The result of lookup(name, len).
lookup_res(S, name) ==
  IF Matches(S, name) # {}
    THEN CHOOSE i \in Matches(S, name) : \A k \in Matches(S, name) : i <= k
  ELSE IF S.entries = VAR_MAX THEN -1
  ELSE S.entries

\* The members and the eeprom after lookup(name, len).
lookup(S, name) ==
  IF Matches(S, name) # {} \/ S.entries = VAR_MAX THEN S
  ELSE [S EXCEPT
          !.eeprom =
            eeprom_update_byte(
              eeprom_update_word(
                eeprom_update_byte(
                  eeprom_update_block(
                    eeprom_update_word(S.eeprom, NameField(S.entries), S.dp),
                    S.dp, name),
                  S.dp + Len(name), 0),
                0, S.dp + Len(name) + 1),
              PtrSize, S.entries + 1),
          !.dp = S.dp + Len(name) + 1,
          !.entries = S.entries + 1,
          !.ram[S.entries] = 0]

\* The loop of the back-tick: the characters from ip on while they are
\* alphanumeric; ip is the address of the character that ended it.
RECURSIVE name_scan(_, _, _, _)
name_scan(mem, ip, name, wild) ==
  IF next(mem, ip, wild) \in Alnum
    THEN name_scan(mem, ip + 1, Append(name, next(mem, ip, wild)), wild)
    ELSE [name |-> name, ip |-> ip]

\* case back-tick: the name N is looked up or added and its index pushed.
Variable(S, N) ==
  IF Len(N.name) > 0
    THEN push(lookup(S, N.name), lookup_res(S, N.name))
    ELSE S

\* The case labels of the switch.
OpCodes ==
  { " ", ",", "n", "+", "-", "*", "/", "%", "h", "F", "T", "=", "#", "<",
    ">", "~", "&", "|", "^", "c", "d", "g", "j", "o", "p", "r", "s", "q",
    "u", "@", "!", "z", "a", "\\", "$", "k", "b", "?", ".", "m", "t", "v",
    "e", "f", "i", "l", "w", "x", "y", BQ, ":", ";", "{", "}", "(", "[",
    "]", "'", "A", "C", "D", "E", "H", "I", "K", "L", "M", "N", "O", "P",
    "R", "S", "U", "W", "X", "Z", "_" }

\* ------------------------------------------------------------- scripts

\* The words generated scripts are made of.
Words ==
  { <<"1">>, <<"2">>, <<"-", "3">>, <<"\\">>, <<"C">>, <<"d">>, <<"u">>,
    <<"~">>, <<"[">>, <<"]">>, <<"{", "Q", "}">>, <<"{", "2", "\\", "}">>,
    <<"x">>, <<"Q">>, <<"!">>, <<"{">> }

RECURSIVE Generated(_)
Generated(k) ==
  IF k = 0 THEN {<< >>}
  ELSE Generated(k - 1) \cup
       {s \o w : s \in Generated(k - 1), w \in Words}

\* Scripts for the operations the words leave out.
Scripted ==
  {
    \* 1 2,+n2*3-
    <<"1", " ", "2", ",", "+", "n", "2", "*", "3", "-">>,
    \* 1 2=FT#2<1>
    <<"1", " ", "2", "=", "F", "T", "#", "2", "<", "1", ">">>,
    \* 7 8 9rso2pjq2g1c
    <<"7", " ", "8", " ", "9", "r", "s", "o", "2", "p", "j", "q", "2",
      "g", "1", "c">>,
    \* 5 0!0@8 3!3@8 9!9@-3@
    <<"5", " ", "0", "!", "0", "@", "8", " ", "3", "!", "3", "@", "8",
      " ", "9", "!", "9", "@", "-", "3", "@">>,
    \* 9 7 8 2\1$@2$@5 -2\
    <<"9", " ", "7", " ", "8", " ", "2", "\\", "1", "$", "@", "2", "$",
      "@", "5", " ", "-", "2", "\\">>,
    \* 5\-9\
    <<"5", "\\", "-", "9", "\\">>,
    \* 2\-3\[1]Q
    <<"2", "\\", "-", "3", "\\", "[", "1", "]", "Q">>,
    \* [1 2[3]
    <<"[", "1", " ", "2", "[", "3", "]">>,
    \* 1 2 3C~
    <<"1", " ", "2", " ", "3", "C", "~">>,
    \* 1 2 3 4 5 6 7
    <<"1", " ", "2", " ", "3", " ", "4", " ", "5", " ", "6", " ", "7">>,
    \* T{F}{T}e
    <<"T", "{", "F", "}", "{", "T", "}", "e">>,
    \* F{Q}{T}eT{1}i
    <<"F", "{", "Q", "}", "{", "T", "}", "e", "T", "{", "1", "}", "i">>,
    \* T{{Q}x1}i2
    <<"T", "{", "{", "Q", "}", "x", "1", "}", "i", "2">>,
    \* 0 9{}lu
    <<"0", " ", "9", "{", "}", "l", "u">>,
    \* 0 2{Q}l7
    <<"0", " ", "2", "{", "Q", "}", "l", "7">>,
    \* {Q}0!0:7
    <<"{", "Q", "}", "0", "!", "0", ":", "7">>,
    \* 1:7
    <<"1", ":", "7">>,
    \* 2{1-u}w
    <<"2", "{", "1", "-", "u", "}", "w">>,
    \* {Q}w7
    <<"{", "Q", "}", "w", "7">>,
    \* 1(a(b))2(c
    <<"1", "(", "a", "(", "b", ")", ")", "2", "(", "c">>,
    \* 1{2{3
    <<"1", "{", "2", "{", "3">>,
    \* 1 2 Q3
    <<"1", " ", "2", " ", "Q", "3">>,
    \* 1_2
    <<"1", "_", "2">>,
    \* 'Q1}Q
    <<"'", "Q", "1", "}", "Q">>,
    \* 0x1f 0b101 0x
    <<"0", "x", "1", "f", " ", "0", "b", "1", "0", "1", " ", "0", "x">>,
    \* 7 8{1\}x
    <<"7", " ", "8", "{", "1", "\\", "}", "x">>,
    \* 7 8{1\Q}x
    <<"7", " ", "8", "{", "1", "\\", "Q", "}", "x">>,
    \* 5x
    <<"5", "x">>,
    \* 1 2 3 4 5{}x
    <<"1", " ", "2", " ", "3", " ", "4", " ", "5", "{", "}", "x">>,
    \* {'}x
    <<"{", "'", "}", "x">>,
    \* `a `b `c `a
    <<BQ, "a", " ", BQ, "b", " ", BQ, "c", " ", BQ, "a">>,
    \* `a `a 5 0!`
    <<BQ, "a", " ", BQ, "a", " ", "5", " ", "0", "!", BQ>>,
    \* 3 2>2 2=2 2#1 0<
    <<"3", " ", "2", ">", "2", " ", "2", "=", "2", " ", "2", "#", "1", " ",
      "0", "<">>,
    \* 9 7 8 2\5 -2\
    <<"9", " ", "7", " ", "8", " ", "2", "\\", "5", " ", "-", "2", "\\">>,
    \* 7 8 2\5 6 -2\
    <<"7", " ", "8", " ", "2", "\\", "5", " ", "6", " ", "-", "2", "\\">>,
    \* 9 7 8 2\-2\
    <<"9", " ", "7", " ", "8", " ", "2", "\\", "-", "2", "\\">>,
    \* 7 8 2\5 2$!
    <<"7", " ", "8", " ", "2", "\\", "5", " ", "2", "$", "!">>,
    \* 7 8 2\5 1$!
    <<"7", " ", "8", " ", "2", "\\", "5", " ", "1", "$", "!">>,
    \* 7 8 9 3g
    <<"7", " ", "8", " ", "9", " ", "3", "g">>,
    \* 7 8 3g0g
    <<"7", " ", "8", " ", "3", "g", "0", "g">>,
    \* 7 8 1p
    <<"7", " ", "8", " ", "1", "p">>,
    \* 0x7fff 0x7fff{d}l
    <<"0", "x", "7", "f", "f", "f", " ", "0", "x", "7", "f", "f", "f", "{",
      "d", "}", "l">>,
    \* 2 1{Q}l3 4{d}l
    <<"2", " ", "1", "{", "Q", "}", "l", "3", " ", "4", "{", "d", "}", "l">>,
    \* 7 5-3
    <<"7", " ", "5", "-", "3">>,
    \* `a`b d{1};1f`cc
    <<BQ, "a", BQ, "b", " ", "d", "{", "1", "}", ";", "1", "f", BQ, "c",
      "c">>,
    \* `a{1};0f`b5f
    <<BQ, "a", "{", "1", "}", ";", "0", "f", BQ, "b", "5", "f">>,
    \* Z1 2,+Z
    <<"Z", "1", " ", "2", ",", "+", "Z">>,
    \* T { F } { T } e
    <<"T", " ", "{", " ", "F", " ", "}", " ", "{", " ", "T", " ", "}", " ",
      "e">> }

Scripts == Generated(MaxWords) \cup Scripted

\* Host values of push().
HostValues == {0, 7}

\* ----------------------------------------------------------------- steps

Top == cs[Len(cs)]

Running == cs # << >> /\ Top.wait = "none" /\ steps < MaxSteps

\* The frame after the head of the iteration.
Headed(T) == [Top EXCEPT !.ip = T.ip, !.neg = T.neg, !.base = T.base]

\* The record of a step.  act: "op" an operation that continues, "ret" a
\* return of execute(), "resume" the continuation behind a block that
\* returned NULL, "host" a call of the stack interface.  op: the operation
\* code (or the interface function), pos: its address, how: the way of a
\* return, S0: the state the operation started from (behind the literal
\* of the iteration), val: the block's result (resume, failed return) or
\* the interface's argument or result, fp0: m_fp at the entry of the
\* execute() that returned, prev: the interface call before this one.
NoCall == [op |-> NUL, val |-> 0, sp |-> 0]

Done(act, op, pos, how, S0, val) ==
  [ act |-> act, op |-> op, pos |-> pos, how |-> how,
    S0 |-> [S0 EXCEPT !.wild = 0], fp0 |-> 0, lvl |-> Len(cs), val |-> val,
    prev |-> NoCall ]

\* The step handed an operation code to the switch.
Dispatched(rec) ==
  \/ rec.act = "op"
  \/ rec.act = "ret" /\ rec.how \in {"brace", "error", "unmatched"}

\* Lines 346-363: in trace mode an iteration that reaches the switch
\* counts a cycle and prints a trace line before the operation is done.
Traced(S, rec) ==
  IF Dispatched(rec) /\ m_trace
    THEN [S EXCEPT !.cycle = (m_cycle + 1) % (2 ^ IntBits),
                   !.lines = lines + 1]
    ELSE S

Commit(S, stack, ret, rec) ==
  /\ Members(Traced(S, rec))
  /\ cs' = stack
  /\ rv' = ret
  /\ last' = rec
  /\ steps' = steps + 1
  /\ trail' = IF Dispatched(rec)
               THEN Append(trail, [pos |-> rec.pos, op |-> rec.op,
                                   d |-> depth(rec.S0)])
               ELSE trail
  /\ UNCHANGED << text, ran, calls, tag >>

\* continue: the frame f goes on with its next iteration.
Go(S, f, rec) == Commit(S, [cs EXCEPT ![Len(cs)] = f], rv, rec)

\* execute(sp) called from frame f.
Call(S, f, sp, rec) ==
  Commit(S, Append([cs EXCEPT ![Len(cs)] = f], Frame(sp, S)), rv, rec)

\* return (val) of the innermost execute(); fp0 is the value m_fp had when
\* that call was entered.
Return(S, val, rec) ==
  Commit(S, SubSeq(cs, 1, Len(cs) - 1), val, [rec EXCEPT !.fp0 = Top.fp])

\* The head of the next iteration of the innermost execute().
Fetch(wild) == Tok(Top, Self(wild))

\* An iteration whose operation Op ends in continue without touching ip.
SimpleStep(T, Op(_, _)) ==
  Go(Op(T.op, T.S), Headed(T), Done("op", T.op, T.ip - 1, "none", T.S, 0))

\* The host calls execute(script) on a fresh line.
Execute ==
  /\ ~ran
  /\ cs = << >>
  /\ ran' = TRUE
  /\ cs' = << Frame(ScriptBase, Self(0)) >>
  /\ last' = Done("exec", NUL, ScriptBase, "none", Self(0), 0)
  /\ UNCHANGED << text, m_sp, m_fp, m_tos, m_marker, ram, rv, calls, steps,
                  oob, trail, m_entries, m_dp, eeprom, m_trace, m_cycle,
                  lines, tag >>

\* The loop ends at the null terminator: the frame pointer is restored
\* and NULL returned.
EndStep(T) ==
  Return([T.S EXCEPT !.fp = Top.fp], 0,
         Done("ret", NUL, T.ip - 1, "end", T.S, 0))

EndOfScript ==
  /\ Running
  /\ \E wild \in Wild :
       /\ Fetch(wild).exit
       /\ EndStep(Fetch(wild))

\* case ' ' ',' 'N'
NoOperation ==
  /\ Running
  /\ \E wild \in Wild :
       /\ ~Fetch(wild).exit
       /\ Fetch(wild).op \in {" ", ",", "N"}
       /\ SimpleStep(Fetch(wild), LAMBDA op, S : S)

ArithmeticOp ==
  /\ Running
  /\ \E wild \in Wild :
       /\ ~Fetch(wild).exit
       /\ Fetch(wild).op \in {"n", "+", "-", "*"}
       /\ SimpleStep(Fetch(wild), Arithmetic)

ComparisonOp ==
  /\ Running
  /\ \E wild \in Wild :
       /\ ~Fetch(wild).exit
       /\ Fetch(wild).op \in {"F", "T", "=", "#", "<", ">"}
       /\ SimpleStep(Fetch(wild), Comparison)

BitwiseOp ==
  /\ Running
  /\ \E wild \in Wild :
       /\ ~Fetch(wild).exit
       /\ Fetch(wild).op \in {"~"}
       /\ SimpleStep(Fetch(wild), LAMBDA op, S : BitNot(S))

StackOperation ==
  /\ Running
  /\ \E wild \in Wild :
       /\ ~Fetch(wild).exit
       /\ Fetch(wild).op \in {"c", "d", "g", "j", "o", "p", "r", "s", "q", "u"}
       /\ SimpleStep(Fetch(wild), StackOp)

MemoryAccess ==
  /\ Running
  /\ \E wild \in Wild :
       /\ ~Fetch(wild).exit
       /\ Fetch(wild).op \in {"@", "!"}
       /\ SimpleStep(Fetch(wild), MemoryOp)

StackFrame ==
  /\ Running
  /\ \E wild \in Wild :
       /\ ~Fetch(wild).exit
       /\ Fetch(wild).op \in {"\\", "$"}
       /\ SimpleStep(Fetch(wild), FrameOp)

\* case 'C'
ClearOp ==
  /\ Running
  /\ \E wild \in Wild :
       /\ ~Fetch(wild).exit
       /\ Fetch(wild).op \in {"C"}
       /\ SimpleStep(Fetch(wild), LAMBDA op, S : clear(S))

\* case '[' ']' '\''
MarkerStep(T, R) ==
  Go(R.S, [Headed(T) EXCEPT !.ip = R.ip],
     Done("op", T.op, T.ip - 1, "none", T.S, 0))

Marker ==
  /\ Running
  /\ \E wild \in Wild :
       /\ ~Fetch(wild).exit
       /\ Fetch(wild).op \in {"[", "]", "'"}
       /\ MarkerStep(Fetch(wild),
                     MarkerOp(Fetch(wild).op, Top.mem, Fetch(wild).ip,
                              Fetch(wild).S))

\* case back-tick: continue at the character behind the name.
VariableStep(T, N) ==
  Go(Variable(T.S, N), [Headed(T) EXCEPT !.ip = N.ip],
     Done("op", T.op, T.ip - 1, "none", T.S, 0))

LookupOrAdd ==
  /\ Running
  /\ \E wild \in Wild :
       /\ ~Fetch(wild).exit
       /\ Fetch(wild).op = BQ
       /\ VariableStep(Fetch(wild),
                       name_scan(Top.mem, Fetch(wild).ip, << >>, wild))

\* &m_dict[i].value
ValueField(i) == NameField(i) + PtrSize

\* case 'f' (lines 596-604): the variable w and those behind it are
\* forgotten; m_dp goes back to the name of w.
forget(S) ==
  LET w == pop_res(S)
      P == pop(S)
      dp == eeprom_read_word(S.eeprom, NameField(w))
  IN  IF w >= 0 /\ w < S.entries
        THEN [P EXCEPT
                !.entries = w,
                !.dp = dp,
                !.eeprom = eeprom_update_byte(
                             eeprom_update_word(S.eeprom, 0, dp),
                             PtrSize, w)]
        ELSE P

\* The len bytes of data memory from src on that reach the eeprom when
\* they are written from dp on.
block_bytes(src, dp, len, wild) ==
  [j \in 1..(IF dp + len > EepromSize
               THEN IF dp < EepromSize THEN EepromSize - dp ELSE 0
               ELSE len) |-> next("RAM", src + j - 1, wild)]

\* case ';' (lines 661-676): the block src of len bytes, len being the
\* local the last '}' form of this execute() set, is copied to m_dp and
\* null terminated; its eeprom address becomes the value of the variable.
copy_block(S, len, wild) ==
  LET dest == as_addr("EEM", S.dp)
      src == pop_res(S)
      S1 == pop(S)
      addr == pop_res(S1)
      S2 == pop(S1)
      n == len % (2 ^ IntBits)
      dp1 == (S.dp + n) % (2 ^ IntBits)
      dp2 == (dp1 + 1) % (2 ^ IntBits)
  IN  IF addr >= 0 /\ addr < S.entries
        THEN [write(S2, addr, dest) EXCEPT
                !.dp = dp2,
                !.eeprom =
                  eeprom_update_word(
                    eeprom_update_word(
                      eeprom_update_byte(
                        eeprom_update_block(S.eeprom, S.dp,
                                            block_bytes(src, S.dp, n, wild)),
                        dp1, 0),
                      0, dp2),
                    ValueField(addr), dest % (2 ^ IntBits))]
        ELSE S2

Dictionary ==
  /\ Running
  /\ \E wild \in Wild :
       /\ ~Fetch(wild).exit
       /\ Fetch(wild).op \in {"f", ";"}
       /\ SimpleStep(Fetch(wild),
                     LAMBDA op, S : IF op = "f" THEN forget(S)
                                    ELSE copy_block(S, Top.len, wild))

\* case 'Z': toggle trace mode.
TraceMode ==
  /\ Running
  /\ \E wild \in Wild :
       /\ ~Fetch(wild).exit
       /\ Fetch(wild).op = "Z"
       /\ SimpleStep(Fetch(wild),
                     LAMBDA op, S : [S EXCEPT !.trace = ~S.trace])

\* case '{' '(' and the scan of the form, whose result is R; S1 is the
\* state after the push of '{'.  A form closed by its right delimiter
\* continues behind it ('}' sets len); a form that runs into the null
\* terminator breaks the loop with op = left: the frame pointer is
\* restored and ip - 1 returned, ip being the position of the null
\* terminator.
\* The special forms with one rewind on the null terminator instead of two.
FormStep_once(T, S1, R) ==
  IF R.op = NUL
    THEN Return([S1 EXCEPT !.fp = Top.fp], R.ip - 1,
                Done("ret", T.op, T.ip - 1, "unmatched", T.S, 0))
    ELSE Go(S1,
            [Headed(T) EXCEPT
               !.ip = R.ip,
               !.len = IF R.op = "}" THEN R.ip - S1.tos - 1 ELSE Top.len],
            Done("op", T.op, T.ip - 1, "none", T.S, 0))

FormStep(T, S1, R) ==
  IF R.op = NUL
    THEN Return([S1 EXCEPT !.fp = Top.fp], (R.ip - 1) - 1,
                Done("ret", T.op, T.ip - 1, "unmatched", T.S, 0))
    ELSE Go(S1,
            [Headed(T) EXCEPT
               !.ip = R.ip,
               !.len = IF R.op = "}" THEN R.ip - S1.tos - 1 ELSE Top.len],
            Done("op", T.op, T.ip - 1, "none", T.S, 0))

FormOf(T, wild) ==
  FormStep(T,
           IF T.op = "{" THEN push(T.S, as_addr(Top.mem, T.ip)) ELSE T.S,
           form_scan(Top.mem, T.ip, 1, T.op,
                     IF T.op = "{" THEN "}" ELSE ")", wild))

Form ==
  /\ Running
  /\ \E wild \in Wild :
       /\ ~Fetch(wild).exit
       /\ Fetch(wild).op \in {"{", "("}
       /\ FormOf(Fetch(wild), wild)

\* case '}': return (NULL).
BraceStep(T) ==
  Return(T.S, 0, Done("ret", T.op, T.ip - 1, "brace", T.S, 0))

EndOfBlock ==
  /\ Running
  /\ \E wild \in Wild :
       /\ ~Fetch(wild).exit
       /\ Fetch(wild).op = "}"
       /\ BraceStep(Fetch(wild))

\* default and TRAP_OP_CODE with the default trap(), which returns NULL:
\* goto error, which returns ip - 1.
\* The error label without its rewind.
ErrorStep_ahead(T) ==
  Return(T.S, T.ip, Done("ret", T.op, T.ip - 1, "error", T.S, 0))

ErrorStep(T) ==
  Return(T.S, T.ip - 1, Done("ret", T.op, T.ip - 1, "error", T.S, 0))

Unknown ==
  /\ Running
  /\ \E wild \in Wild :
       /\ ~Fetch(wild).exit
       /\ Fetch(wild).op \notin OpCodes \/ Fetch(wild).op = "_"
       /\ ErrorStep(Fetch(wild))

\* An 'x' that leaves the script address on the stack.
Execute_x_keep(S, f, rec) ==
  Call(S, [f EXCEPT !.wait = "x"], pop_res(S), rec)

\* case 'e' 'i' 'l' 'w' 'x' ':' up to the call of execute(sp).  The frame
\* remembers in wait what it called the block for.
Execute_x(S, f, rec) ==
  Call(pop(S), [f EXCEPT !.wait = "x"], pop_res(S), rec)

Execute_i(S, f, rec) ==
  IF pop_res(pop(S)) # 0
    THEN Call(pop(pop(S)), [f EXCEPT !.wait = "x"], pop_res(S), rec)
    ELSE Go(pop(pop(S)), f, rec)

\* An 'e' that takes the else-block for a flag other than 0.
Execute_e_swapped(S, f, rec) ==
  IF load(S, S.sp + 1) = 0
    THEN Call(drop(pop(drop(touch(S, S.sp + 1)))), [f EXCEPT !.wait = "x"],
              pop_res(drop(S)), rec)
    ELSE Call(drop(drop(pop(touch(S, S.sp + 1)))), [f EXCEPT !.wait = "x"],
              pop_res(S), rec)

Execute_e(S, f, rec) ==
  IF load(S, S.sp + 1) # 0
    THEN Call(drop(pop(drop(touch(S, S.sp + 1)))), [f EXCEPT !.wait = "x"],
              pop_res(drop(S)), rec)
    ELSE Call(drop(drop(pop(touch(S, S.sp + 1)))), [f EXCEPT !.wait = "x"],
              pop_res(S), rec)

Execute_colon(S, f, rec, sp) ==
  IF sp = 0
    THEN Return(pop(S), f.ip - 1, [rec EXCEPT !.act = "ret", !.how = "error"])
    ELSE Call(pop(S), [f EXCEPT !.wait = "x"], sp, rec)

Execute_l(S3, f, rec, sp, high, low) ==
  IF low <= high
    THEN Call(push(S3, low),
              [f EXCEPT !.wait = "l", !.sp = sp, !.i = low, !.high = high],
              sp, rec)
    ELSE Go(S3, f, rec)

Execute_w(S, f, rec) ==
  Call(pop(S), [f EXCEPT !.wait = "w", !.sp = pop_res(S)], pop_res(S), rec)

ControlStep(op, S, f, rec) ==
  CASE op = "x" -> Execute_x(S, f, rec)
    [] op = "i" -> Execute_i(S, f, rec)
    [] op = "e" -> Execute_e(S, f, rec)
    [] op = ":" -> Execute_colon(S, f, rec, read(pop(S), pop_res(S)))
    [] op = "l" -> Execute_l(pop(pop(pop(S))), f, rec, pop_res(S),
                             pop_res(pop(S)), pop_res(pop(pop(S))))
    [] op = "w" -> Execute_w(S, f, rec)

ControlOf(T) ==
  ControlStep(T.op, T.S, Headed(T),
              Done("op", T.op, T.ip - 1, "none", T.S, 0))

Control ==
  /\ Running
  /\ \E wild \in Wild :
       /\ ~Fetch(wild).exit
       /\ Fetch(wild).op \in {"e", "i", "l", "w", "x", ":"}
       /\ ControlOf(Fetch(wild))

\* execute(sp) has returned rv to the frame f that called it: a result
\* other than NULL is goto error, which returns ip - 1; NULL continues,
\* 'l' and 'w' with their next round.
\* A caller that goes on behind an 'x' whose block failed.
ResumeStep_on(S, f, rec) ==
  IF rv # 0 /\ f.wait # "x"
    THEN Return(S, f.ip - 1, [rec EXCEPT !.act = "ret", !.how = "failed"])
    ELSE CASE f.wait = "x" -> Go(S, [f EXCEPT !.wait = "none"], rec)
           [] f.wait = "l" ->
                IF Wrap(f.i + 1) <= f.high
                  THEN Call(push(S, Wrap(f.i + 1)),
                            [f EXCEPT !.i = Wrap(f.i + 1)], f.sp, rec)
                  ELSE Go(S, [f EXCEPT !.wait = "none"], rec)
           [] f.wait = "w" ->
                IF pop_res(S) # 0
                  THEN Call(pop(S), f, f.sp, rec)
                  ELSE Go(pop(S), [f EXCEPT !.wait = "none"], rec)

\* A caller that returns the position its block returned.
ResumeStep_same(S, f, rec) ==
  IF rv # 0
    THEN Return(S, rv, [rec EXCEPT !.act = "ret", !.how = "failed"])
    ELSE CASE f.wait = "x" -> Go(S, [f EXCEPT !.wait = "none"], rec)
           [] f.wait = "l" ->
                IF Wrap(f.i + 1) <= f.high
                  THEN Call(push(S, Wrap(f.i + 1)),
                            [f EXCEPT !.i = Wrap(f.i + 1)], f.sp, rec)
                  ELSE Go(S, [f EXCEPT !.wait = "none"], rec)
           [] f.wait = "w" ->
                IF pop_res(S) # 0
                  THEN Call(pop(S), f, f.sp, rec)
                  ELSE Go(pop(S), [f EXCEPT !.wait = "none"], rec)

ResumeStep(S, f, rec) ==
  IF rv # 0
    THEN Return(S, f.ip - 1, [rec EXCEPT !.act = "ret", !.how = "failed"])
    ELSE CASE f.wait = "x" -> Go(S, [f EXCEPT !.wait = "none"], rec)
           [] f.wait = "l" ->
                IF Wrap(f.i + 1) <= f.high
                  THEN Call(push(S, Wrap(f.i + 1)),
                            [f EXCEPT !.i = Wrap(f.i + 1)], f.sp, rec)
                  ELSE Go(S, [f EXCEPT !.wait = "none"], rec)
           [] f.wait = "w" ->
                IF pop_res(S) # 0
                  THEN Call(pop(S), f, f.sp, rec)
                  ELSE Go(pop(S), [f EXCEPT !.wait = "none"], rec)

Resume ==
  /\ cs # << >>
  /\ Top.wait # "none"
  /\ steps < MaxSteps
  /\ ResumeStep(Self(0), Top,
                Done("resume", Top.wait, Top.ip - 1, "none", Self(0), rv))

\* ----------------------------------------- the public stack interface

\* The host may call the interface once execute(script) has returned.
HostIdle == ran /\ cs = << >> /\ calls < MaxCalls

\* A call that leaves the state S.
HostStep(S, name, val) ==
  /\ calls' = calls + 1
  /\ Members(S)
  /\ last' = [Done("host", name, 0, "none", Self(0), val)
                EXCEPT !.prev = IF last.act = "host"
                                  THEN [op |-> last.op, val |-> last.val,
                                        sp |-> last.S0.sp]
                                  ELSE NoCall]
  /\ UNCHANGED << text, cs, rv, ran, steps, trail, tag >>

HostPush ==
  /\ HostIdle
  /\ \E v \in HostValues : HostStep(push(Self(0), v), "push", v)

HostPop ==
  /\ HostIdle
  /\ HostStep(pop(Self(0)), "pop", pop_res(Self(0)))

HostDrop ==
  /\ HostIdle
  /\ HostStep(drop(Self(0)), "drop", 0)

HostClear ==
  /\ HostIdle
  /\ HostStep(clear(Self(0)), "clear", 0)

\* The constructor (lines 46-70) with the eeprom of S: the members are
\* set, then m_entries, m_dp and the values of the entries are read back
\* where the eeprom holds a valid state.  m_var and m_stack are not set
\* otherwise: every cell holds the same arbitrary value u.
restore(S, u) ==
  LET entries == eeprom_read_byte(S.eeprom, PtrSize)
      dp == eeprom_read_word(S.eeprom, 0)
      valid == dp # 256 * Blank + Blank /\ entries < VAR_MAX
  IN  [S EXCEPT
         !.sp = StackEnd,
         !.fp = StackEnd,
         !.tos = 0,
         !.marker = -1,
         !.trace = FALSE,
         !.cycle = 0,
         !.entries = IF valid THEN entries ELSE 0,
         !.dp = IF valid THEN dp ELSE NamesBase,
         !.ram = [a \in 0..(StackEnd - 1) |->
                    IF valid /\ a < entries
                      THEN Wrap(eeprom_read_word(S.eeprom, ValueField(a)))
                      ELSE u]]

\* The host restarts: a new Shell is constructed over the same eeprom.
Restart ==
  /\ HostIdle
  /\ \E u \in Wild : HostStep(restore(Self(0), u), "Shell", 0)

\* ---------------------------------------------------------- specification

\* The state the constructor leaves, the eeprom being blank (every byte
\* 0xff, so that nothing is restored from it).  m_var and m_stack are not
\* initialized by it: every cell holds the same arbitrary value.
Constructed ==
  /\ m_sp = StackEnd
  /\ m_fp = StackEnd
  /\ m_tos = 0
  /\ m_marker = -1
  /\ m_entries = 0
  /\ m_dp = NamesBase
  /\ eeprom = [a \in 0..(EepromSize - 1) |-> Blank]
  /\ m_trace = FALSE
  /\ m_cycle = 0
  /\ lines = 0
  /\ \E u \in Wild : ram = [a \in 0..(StackEnd - 1) |-> u]
  /\ cs = << >>
  /\ rv = 0
  /\ ran = FALSE
  /\ calls = 0
  /\ steps = 0
  /\ oob = FALSE
  /\ last = Done("init", NUL, 0, "none", Self(0), 0)
  /\ trail = << >>

\* No local address is under way.
NoTag == [R |-> "RAM", l |-> 0, p |-> 0, sel |-> "RAM", ip |-> 0,
          back |-> 0, at |-> "none"]

Init == text \in Scripts /\ Constructed /\ tag = NoTag

Next ==
  \/ Execute
  \/ EndOfScript
  \/ NoOperation
  \/ ArithmeticOp
  \/ ComparisonOp
  \/ BitwiseOp
  \/ StackOperation
  \/ MemoryAccess
  \/ StackFrame
  \/ ClearOp
  \/ Marker
  \/ LookupOrAdd
  \/ Dictionary
  \/ TraceMode
  \/ Form
  \/ EndOfBlock
  \/ Unknown
  \/ Control
  \/ Resume
  \/ HostPush
  \/ HostPop
  \/ HostDrop
  \/ HostClear
  \/ Restart

Spec == Init /\ [][Next]_vars

\* ------------------------------------------- address tagging on its own

\* The three memories of the shell: m_memory, m_progmem, m_eeprom.
Regions == {"RAM", "PGM", "EEM"}

\* Local addresses a script is placed at, the first byte of a memory and
\* the addresses around NVM_BASE and the largest int among them.
Locals ==
  {0, 1, 2, 3, 255, 256, 1023, 1024, NVM_BASE - 2, NVM_BASE - 1, NVM_BASE,
   NVM_BASE + 1, 2 ^ (IntBits - 1) - 2, 2 ^ (IntBits - 1) - 1}

\* A script at local address l of the memory R is about to be executed.
TagInit ==
  /\ text = << "1" >>
  /\ Constructed
  /\ tag \in {[NoTag EXCEPT !.R = R, !.l = l, !.at = "local"] :
                R \in Regions, l \in Locals}

\* execute(const Script*) and the '{' operation: the local address is
\* mapped to the linear address space.
TagAddr ==
  /\ tag.at = "local"
  /\ tag' = [tag EXCEPT !.p = as_addr(tag.R, tag.l), !.at = "tagged"]
  /\ UNCHANGED << text, m_sp, m_fp, m_tos, m_marker, ram, cs, rv, ran, calls,
                  steps, oob, last, trail, m_entries, m_dp, eeprom, m_trace,
                  m_cycle, lines >>

\* The entry of execute(const char*): the memory is selected from the
\* pointer and the pointer mapped to a local address of that memory (ip);
\* back is the local address the memory the script lives in maps it to.
TagAccess ==
  /\ tag.at = "tagged"
  /\ tag' = [tag EXCEPT !.sel = access(tag.p),
                        !.ip = as_local(access(tag.p), tag.p),
                        !.back = as_local(tag.R, tag.p), !.at = "done"]
  /\ UNCHANGED << text, m_sp, m_fp, m_tos, m_marker, ram, cs, rv, ran, calls,
                  steps, oob, last, trail, m_entries, m_dp, eeprom, m_trace,
                  m_cycle, lines >>

TagNext == TagAddr \/ TagAccess

TagSpec == TagInit /\ [][TagNext]_vars

\* ------------------------------------------------------------- claims

Depth == StackEnd - m_sp

\* The character of the script at address a.
CharAt(a) == next("RAM", a, 0)

\* C1: in every state reachable by executing any script, depth() is at
\* least 0 and at most STACK_MAX.
C1_DepthInRange == 0 <= Depth /\ Depth <= STACK_MAX

\* The host has called push(v) and, right behind it, pop().
PushThenPop ==
  last.act = "host" /\ last.op = "pop" /\ last.prev.op = "push"

\* depth() before that push(v).
DepthBeforePush == StackEnd - last.prev.sp

\* C2: from every stack state with 0 <= depth() <= STACK_MAX, the full
\* stack included, push(v) followed by pop() returns v and leaves depth()
\* as it was before the push.
C2_PushPop ==
  PushThenPop /\ DepthBeforePush \in 0..STACK_MAX
    => last.val = last.prev.val /\ Depth = DepthBeforePush

\* C2, amended: from every stack state with 0 <= depth() < STACK_MAX,
\* push(v) followed by pop() returns v and leaves depth() as it was; on
\* the full stack pop() returns v as well, and depth() is STACK_MAX - 1.
C2_PushPopBelowFull ==
  PushThenPop =>
    /\ DepthBeforePush \in 0..(STACK_MAX - 1)
         => last.val = last.prev.val /\ Depth = DepthBeforePush
    /\ DepthBeforePush = STACK_MAX
         => last.val = last.prev.val /\ Depth = STACK_MAX - 1

C2_Witness ==
  PushThenPop /\ DepthBeforePush \in 1..(STACK_MAX - 1) /\ last.val = 7

\* The host has called pop() or drop() on the empty stack.
Underflow ==
  last.act = "host" /\ last.op \in {"pop", "drop"} /\ depth(last.S0) = 0

\* C3: whenever depth() = 0, pop() returns 0, and pop() and drop() leave
\* depth() at 0.
C3_UnderflowReturnsZero ==
  Underflow => Depth = 0 /\ (last.op = "pop" => last.val = 0)

\* C4: on every return of execute(), at the null terminator, at a '}' or
\* with a failure, m_fp has the value it had when that call was entered.
C4_FramePointerRestored == last.act = "ret" => m_fp = last.fp0

\* A block has returned a failure to the execute() that ran it.
FailedBlock == cs # << >> /\ Top.wait # "none" /\ rv # 0

\* C5: once a block run by 'i', 'e', 'l', 'w', 'x' or ':' has returned a
\* failure, the execute() that ran it hands no further operation code to
\* the switch, runs no further round of its loop and returns a failure
\* itself.
C5_ShortCircuit ==
  [][FailedBlock =>
       /\ Len(cs') = Len(cs) - 1
       /\ rv' # 0
       /\ trail' = trail
       /\ m_sp' = m_sp /\ m_tos' = m_tos /\ ram' = ram]_vars

\* A failure has gone up two levels.
C5_Witness == FailedBlock /\ last.act = "ret" /\ last.how = "failed"

\* An execute() has returned because the block it ran failed.
FailedReturn == last.act = "ret" /\ last.how = "failed"

ControlCodes == {"e", "i", "l", "w", "x", ":"}

\* C6: the position the innermost execute() returned is returned
\* unchanged by every enclosing execute().
C6_PositionUnchanged == FailedReturn => rv = last.val

\* C6, amended: an execute() whose block failed returns the position of
\* its own operation code ('e', 'i', 'l', 'w', 'x' or ':') that ran the
\* block, not the position its block returned.
C6_CallerPosition ==
  FailedReturn =>
    rv = last.pos /\ CharAt(rv) \in ControlCodes

C6_Witness ==
  FailedReturn /\ cs = << >> /\ CharAt(last.val) = "Q" /\ rv # last.val

\* An execute() has returned because a '{' or '(' was not closed.
Unmatched == last.act = "ret" /\ last.how = "unmatched"

LastChar == ScriptBase + Len(text) - 1

\* C7: an unclosed '{' or '(' makes execute() return a failure, and the
\* position returned is the one of that opening delimiter.
C7_AtOpener == Unmatched => rv # 0 /\ rv = last.pos

\* C7, amended: an unclosed '{' or '(' makes execute() return a failure,
\* and the position returned is the one of the last character of the
\* script, which is the opening delimiter only when nothing follows it.
C7_AtLastCharacter ==
  Unmatched =>
    /\ rv # 0
    /\ rv = LastChar
    /\ CharAt(last.pos) \in {"{", "("}
    /\ last.pos <= rv

C7_Witness == Unmatched /\ last.pos < rv /\ CharAt(rv) = "{"

\* A character the switch has no case for; TRAP_OP_CODE counts as one.
Unrecognized(c) == c \notin (OpCodes \ {"_"}) \cup DecDigits

HasUnrecognized == \E k \in 1..Len(text) : Unrecognized(text[k])

\* The offset (from 1) of the first unrecognized character.
FirstUnrecognized ==
  CHOOSE k \in 1..Len(text) :
    Unrecognized(text[k]) /\ \A j \in 1..(k - 1) : ~Unrecognized(text[j])

\* The execute(script) of the host has returned.
TopReturned == last.act = "ret" /\ cs = << >>

StraightChars ==
  DecDigits \cup
  { " ", ",", "n", "+", "*", "F", "T", "=", "#", "<", ">", "~", "c", "d",
    "g", "j", "o", "p", "r", "s", "q", "u", "@", "!", "\\", "$", "C", "[",
    "N" }

Straight ==
  /\ HasUnrecognized
  /\ \A j \in 1..(FirstUnrecognized - 1) : text[j] \in StraightChars

\* The addresses of the characters up to offset k that are no digits.
RECURSIVE Codes(_)
Codes(k) ==
  IF k = 0 THEN << >>
  ELSE IF text[k] \in DecDigits THEN Codes(k - 1)
  ELSE Append(Codes(k - 1), ScriptBase + k - 1)

Brackets(t) == SelectSeq(t, LAMBDA e : e.op \in {"[", "]"})

\* The last bracket of the trail is a '[': the script is between a '['
\* and the next ']'.
Open(t) == Brackets(t) # << >> /\ Brackets(t)[Len(Brackets(t))].op = "["

\* depth() at the first '[' behind the last ']' of the trail.
Recorded(t) ==
  LET b == Brackets(t)
      first == CHOOSE i \in 1..Len(b) :
                 /\ \A j \in i..Len(b) : b[j].op = "["
                 /\ i = 1 \/ b[i - 1].op = "]"
  IN  b[first].d

\* The trail before the operation code executed last.
Before == SubSeq(trail, 1, Len(trail) - 1)

\* The step taken last has executed the operation code op.
Executed(op) ==
  /\ last.act = "op" /\ last.op = op
  /\ trail # << >> /\ trail[Len(trail)].pos = last.pos

\* C9: m_marker is -1 except between a '[' and the next ']'; a '[' with
\* the marker inactive stores depth() in the marker and pushes nothing; a
\* further '[' changes neither marker nor stack and the script goes on;
\* the next ']' pushes depth() minus the depth the first '[' recorded and
\* resets the marker to -1.
C9_MarkerProtocol ==
  /\ ~Open(trail) => m_marker = -1
  /\ Executed("[") /\ ~Open(Before) =>
       /\ m_marker = depth(last.S0)
       /\ m_sp = last.S0.sp /\ m_tos = last.S0.tos /\ ram = last.S0.ram
  /\ Executed("[") /\ Open(Before) =>
       /\ m_marker = last.S0.marker
       /\ m_sp = last.S0.sp /\ m_tos = last.S0.tos /\ ram = last.S0.ram
       /\ cs # << >>
  /\ Executed("]") /\ Open(Before) =>
       /\ m_marker = -1
       /\ m_tos = depth(last.S0) - Recorded(Before)
       /\ m_sp = push(last.S0, 0).sp

\* The addresses read() and write() accept: m_var and, behind it, m_stack.
MemRange == 0..(VAR_MAX + STACK_MAX - 1)

\* C10: read(addr) returns 0 and write(addr, v) changes no variable, no
\* stack slot and not tos for every addr outside 0..VAR_MAX-1; '@' and '!'
\* inherit this for the address they take from the stack.
C10_OutsideVariables ==
  /\ Executed("@") /\ last.S0.tos \notin 0..(VAR_MAX - 1) => m_tos = 0
  /\ Executed("!") /\ last.S0.tos \notin 0..(VAR_MAX - 1)
       => ram = last.S0.ram

\* C10, amended: read(addr) returns 0 and write(addr, v) changes no state
\* for every addr outside 0..VAR_MAX+STACK_MAX-1; an addr of
\* VAR_MAX..VAR_MAX+STACK_MAX-1 reads and writes the slot addr - VAR_MAX
\* of the parameter stack, as an addr of 0..VAR_MAX-1 does the variable;
\* '@' and '!' inherit this for the address they take from the stack.
C10_OutsideMemory ==
  /\ Executed("@") =>
       m_tos = IF last.S0.tos \in MemRange
                 THEN last.S0.ram[last.S0.tos] ELSE 0
  /\ Executed("!") /\ last.S0.tos \notin MemRange =>
       /\ ram = last.S0.ram
       /\ depth(last.S0) >= 0 =>
            m_sp = pop(pop(last.S0)).sp /\ m_tos = pop(pop(last.S0)).tos
  /\ Executed("!") /\ last.S0.tos \in MemRange /\ depth(last.S0) >= 0 =>
       ram = [last.S0.ram EXCEPT ![last.S0.tos] = pop(last.S0).tos]

C10_Witness ==
  /\ Executed("@") /\ last.S0.tos < 0 /\ m_tos = 0
  /\ \E i \in 1..Len(trail) : trail[i].op = "!"
  /\ \E a \in MemRange : a >= VAR_MAX /\ ram[a] = 8


\* The dispatch rule of the address spaces: negative pointers are program
\* memory, pointers from NVM_BASE on are eeprom, the others data memory.
DispatchRule(p) ==
  IF p < 0 THEN "PGM" ELSE IF p >= NVM_BASE THEN "EEM" ELSE "RAM"

\* C11: for each region R and every local address l of R, offset 0
\* included, the tagged pointer p = as_addr_R(l) maps back to l with
\* as_local_R, and access(p) selects R again, which is the memory the
\* dispatch rule (p < 0: ROM, p >= NVM_BASE: NVM, else DATA) gives.
C11_RoundTrip ==
  tag.at = "done" =>
    /\ tag.back = tag.l
    /\ tag.sel = tag.R
    /\ tag.sel = DispatchRule(tag.p)
    /\ tag.ip = tag.l

\* The script is P{B}x: literals P that set up the stack, then a block
\* whose closing brace, found by counting braces, is followed by the
\* final x.  BlockAt(k): the opening brace is character k of the script.
BlockAt(k) ==
  /\ text[k] = "{"
  /\ \A j \in 1..(k - 1) : text[j] \in DecDigits \cup {" "}
  /\ text[Len(text)] = "x"
  /\ form_scan("RAM", ScriptBase + k, 1, "{", "}", 0) =
       [op |-> "}", ip |-> ScriptBase + Len(text) - 1]

Captured == \E k \in 1..Len(text) : BlockAt(k)

BlockStart == CHOOSE k \in 1..Len(text) : BlockAt(k)

\* The characters of B.
BlockBody == SubSeq(text, BlockStart + 1, Len(text) - 2)

\* The address of the closing brace of the block.
BlockEnd == ScriptBase + Len(text) - 2

\* This step is the final x entering the block the step before captured.
EntersBlock ==
  /\ last.act = "op" /\ last.op = "{" /\ last.lvl = 1
  /\ last.pos = ScriptBase + BlockStart - 1
  /\ last'.act = "op" /\ last'.op = "x" /\ Len(cs') = 2

\* The block starts at the first byte of B with the stack and the
\* variable table the shell had in front of the opening brace.
SameEntry ==
  /\ cs'[2].mem = "RAM"
  /\ cs'[2].ip = ScriptBase + BlockStart
  /\ m_sp' = last.S0.sp
  /\ m_tos' = last.S0.tos
  /\ \A a \in 0..(StackEnd - 1) :
       a < VAR_MAX \/ a >= last.S0.sp => ram'[a] = last.S0.ram[a]

\* What the block itself hands to the switch lies in B, or is the closing
\* brace, which returns NULL where B as a script ends at its terminator.
EndsAtBrace ==
  Dispatched(last') /\ last'.lvl = 2 =>
    /\ last'.pos <= BlockEnd
    /\ last'.pos = BlockEnd => last'.how = "brace" /\ rv' = 0

\* The tokens of B end in B: B does not end in a quote or a base prefix,
\* which take the closing brace for their operand, and holds no '('.
ClosedBlock ==
  /\ \A j \in 1..Len(BlockBody) : BlockBody[j] # "("
  /\ BlockBody # << >> => BlockBody[Len(BlockBody)] # "'"
  /\ Len(BlockBody) >= 2 =>
       ~(BlockBody[Len(BlockBody) - 1] = "0"
         /\ BlockBody[Len(BlockBody)] \in {"x", "b"})

IfElse == last.act = "op" /\ last.op = "e" /\ depth(last.S0) >= 3

Flag == last.S0.ram[last.S0.sp + 1]
BlockA == last.S0.ram[last.S0.sp]
BlockB == last.S0.tos

IfElseExample ==
  <<"T", " ", "{", " ", "F", " ", "}", " ", "{", " ", "T", " ", "}", " ",
    "e">>

\* C13: 'e' on flag A B (at least three elements) removes exactly these
\* three before anything runs and then executes exactly one block, A for
\* a flag other than 0 and B for 0; T { F } { T } e leaves the single
\* value 0.
C13_IfElse ==
  /\ IfElse =>
       /\ m_sp = last.S0.sp + 3
       /\ Depth = depth(last.S0) - 3
       /\ ram = last.S0.ram
       /\ m_tos = last.S0.ram[last.S0.sp + 2]
       /\ Len(cs) = last.lvl + 1
       /\ cs[last.lvl].wait = "x"
       /\ Top.script = IF Flag # 0 THEN BlockA ELSE BlockB
       /\ Top.ip = as_local(access(Top.script), Top.script)
       /\ Top.wait = "none"
  /\ text = IfElseExample /\ ran /\ cs = << >> /\ calls = 0 =>
       rv = 0 /\ Depth = 1 /\ m_tos = 0

\* The if-block of a true flag is about to run, the else-block is not.
C13_Witness ==
  /\ IfElse
  /\ Flag # 0
  /\ BlockA # BlockB
  /\ Top.script = BlockA
  /\ CharAt(Top.ip) \in {"F", " "}

\* The name behind the back-tick at address pos of the script.
NameAt(pos) == name_scan("RAM", pos + 1, << >>, 0).name

\* The dictionary as the lookups so far define it: the distinct names of
\* the first k operations of the trail in the order of their first
\* lookup, VAR_MAX of them at most.
RECURSIVE Names(_)
Names(k) ==
  IF k = 0 THEN << >>
  ELSE IF /\ trail[k].op = BQ
          /\ NameAt(trail[k].pos) # << >>
          /\ \A j \in 1..Len(Names(k - 1)) :
                Names(k - 1)[j] # NameAt(trail[k].pos)
          /\ Len(Names(k - 1)) < VAR_MAX
    THEN Append(Names(k - 1), NameAt(trail[k].pos))
  ELSE Names(k - 1)

\* The last step looked a name up.
LookedUp ==
  /\ last.act = "op" /\ last.op = BQ
  /\ trail # << >> /\ trail[Len(trail)].pos = last.pos
  /\ NameAt(last.pos) # << >>

Known == Names(Len(trail) - 1)

IsKnown == \E j \in 1..Len(Known) : Known[j] = NameAt(last.pos)

KnownIndex == (CHOOSE j \in 1..Len(Known) : Known[j] = NameAt(last.pos)) - 1

DictionaryUnchanged ==
  /\ m_entries = last.S0.entries
  /\ m_dp = last.S0.dp
  /\ eeprom = last.S0.eeprom

\* C14: the dictionary holds the names at the indices 0..entries-1 in
\* the order of insertion.  The lookup of a name it holds returns the
\* index of that name and changes neither entries nor dp; a new name is
\* appended at index = entries with value 0 while entries < VAR_MAX; a
\* new name with entries = VAR_MAX pushes -1, leaves the dictionary as
\* it is and the script continues.
C14_LookupOrInsert ==
  LookedUp =>
    /\ last.S0.entries = Len(Known)
    /\ IsKnown => m_tos = KnownIndex /\ DictionaryUnchanged
    /\ ~IsKnown /\ Len(Known) < VAR_MAX =>
         /\ m_tos = Len(Known)
         /\ m_entries = Len(Known) + 1
         /\ ram[Len(Known)] = 0
    /\ ~IsKnown /\ Len(Known) = VAR_MAX =>
         /\ m_tos = -1
         /\ DictionaryUnchanged
         /\ cs # << >>

\* C15: with trace enabled, every operation code executed increases the
\* cycle counter by exactly one and emits exactly one trace line, and a
\* space or a comma neither increases the counter nor emits a line.
C15_TraceLines ==
  [][m_trace /\ trail' # trail =>
       IF last'.op \in {" ", ","}
         THEN m_cycle' = m_cycle /\ lines' = lines
         ELSE m_cycle' = m_cycle + 1 /\ lines' = lines + 1]_vars

\* The relation the comparison op tests between x and y.
Holds(op, x, y) ==
  CASE op = "=" -> x = y
    [] op = "#" -> x # y
    [] op = "<" -> x < y
    [] op = ">" -> x > y

\* The last step compared the second element with the top element.
Compared ==
  /\ last.act = "op" /\ last.op \in {"=", "#", "<", ">"}
  /\ depth(last.S0) \in 2..STACK_MAX

\* C16: every comparison (= # < >) leaves the top of stack in {-1, 0}
\* for all operand values, as do T and F; it is -1 exactly when the
\* relation holds between the second element and the top element.
C16_Canonical ==
  /\ last.act = "op" /\ last.op \in {"=", "#", "<", ">", "T", "F"} =>
       m_tos \in {-1, 0}
  /\ last.act = "op" /\ last.op = "T" => m_tos = -1
  /\ last.act = "op" /\ last.op = "F" => m_tos = 0
  /\ Compared =>
       (m_tos = -1 <=>
          Holds(last.op, last.S0.ram[last.S0.sp], last.S0.tos))

\* A relation that holds between two operands other than 0 and -1.
C16_Witness ==
  /\ Compared
  /\ last.S0.ram[last.S0.sp] \notin {0, -1}
  /\ last.S0.tos \notin {0, -1}
  /\ Holds(last.op, last.S0.ram[last.S0.sp], last.S0.tos)
  /\ m_tos = -1

\* The frame the last step resolved.  The literal -n was on top; behind
\* its pop the stack pointer is FrameSp.  m_fp is the cell under the
\* frame element x1, as n\ left it (m_sp + n - 1 behind the pop of n), so
\* the frame is the n cells m_fp - 1 (x1) .. m_fp - n (xn), FrameM
\* elements y1..ym lie above it and FrameBelow elements under it.
FrameN == -last.S0.tos
FrameSp == last.S0.sp + 1
FrameFp == last.S0.fp
FrameM == FrameFp - FrameSp - FrameN + 1
FrameBelow == StackEnd - 1 - FrameFp

Resolved ==
  /\ last.act = "op" /\ last.op = "\\"
  /\ FrameN >= 1
  /\ FrameM >= 0
  /\ last.S0.sp >= StackLo
  /\ FrameFp <= StackEnd - 1

FrameAccess(op) ==
  /\ last.act = "op" /\ last.op = op
  /\ Len(trail) >= 2
  /\ trail[Len(trail)].pos = last.pos
  /\ trail[Len(trail) - 1].op = "$"
  /\ trail[Len(trail) - 1].pos = last.pos - 1
  /\ last.S0.fp \in StackLo..(StackEnd - 1)
  /\ last.S0.sp >= StackLo
  /\ depth(last.S0) < STACK_MAX
  /\ last.S0.fp - last.S0.tos >= 1

\* The element of the stack that lives in cell a: the top of stack is
\* held in m_tos, its cell is the one above m_sp.
ElementAt(a) == IF a = m_sp - 1 THEN m_tos ELSE ram[a]

\* C18: behind n\, for every k in 1..n the address k$ yields designates
\* the frame element x_k: k$@ yields x_k, and v k$! replaces x_k by v and
\* changes no other stack element and no variable, whatever the number
\* of values above the frame.
C18_FrameElement ==
  /\ FrameAccess("@") /\ last.S0.tos >= last.S0.sp =>
       m_tos = last.S0.ram[last.S0.tos]
  /\ FrameAccess("!") /\ last.S0.tos >= m_sp - 1 =>
       /\ ElementAt(last.S0.tos) = last.S0.ram[last.S0.sp]
       /\ \A a \in (m_sp - 1)..(StackEnd - 1) :
            a # last.S0.tos => ElementAt(a) = last.S0.ram[a]
       /\ \A a \in 0..(VAR_MAX - 1) : ram[a] = last.S0.ram[a]

\* The last step was a g on a stack whose top element is the count n.
Rolled ==
  /\ last.act = "op" /\ last.op = "g"
  /\ depth(last.S0) \in 1..STACK_MAX

RollN == last.S0.tos

\* The number of elements below n.
RollBelow == depth(last.S0) - 1

\* C19: g on xn..x1 n with n >= 1 and at least n elements below n leaves
\* xn-1..x1 xn: xn is the top, x1..xn-1 keep their order, every element
\* deeper than xn is unchanged and the depth is one less; with n <= 0 or
\* fewer than n elements below n, g only drops n.
C19_Roll ==
  Rolled =>
    /\ Depth = depth(last.S0) - 1
    /\ m_sp = last.S0.sp + 1
    /\ \A a \in 0..(VAR_MAX - 1) : ram[a] = last.S0.ram[a]
    /\ RollN >= 1 /\ RollN <= RollBelow =>
         /\ m_tos = last.S0.ram[last.S0.sp + RollN - 1]
         /\ \A i \in 1..(RollN - 1) :
              ram[m_sp + i - 1] = last.S0.ram[last.S0.sp + i - 1]
         /\ \A a \in (last.S0.sp + RollN)..(StackEnd - 1) :
              ram[a] = last.S0.ram[a]
    /\ RollN <= 0 \/ RollN > RollBelow =>
         /\ m_tos = last.S0.ram[last.S0.sp]
         /\ ram = last.S0.ram

\* Three different elements have been rolled.
C19_Witness ==
  /\ Rolled
  /\ RollN = 3 /\ RollBelow >= 3
  /\ m_tos = last.S0.ram[last.S0.sp + 2]
  /\ ram[m_sp] = last.S0.ram[last.S0.sp]
  /\ ram[m_sp] # m_tos /\ ram[m_sp] # ram[m_sp + 1] /\ ram[m_sp + 1] # m_tos

\* The last step was a p on a stack a b n, n on top.
Picked ==
  /\ last.act = "op" /\ last.op = "p"
  /\ depth(last.S0) \in 3..STACK_MAX

\* C20: pick is 1-based with 1p the same as o: on a stack of at least
\* two elements a b, 1p leaves a b a, and the depth after n p is the
\* depth before the literal n plus one.
C20_PickOver ==
  Picked =>
    /\ Depth = (depth(last.S0) - 1) + 1
    /\ last.S0.tos = 1 =>
         /\ m_tos = last.S0.ram[last.S0.sp + 1]
         /\ m_sp = last.S0.sp
         /\ ram = last.S0.ram

\* This step is an n p, the literal n right in front of the p, on a
\* stack of at least two elements that has room for n.
PickStep ==
  /\ trail' # trail
  /\ last'.act = "op" /\ last'.op = "p"
  /\ CharAt(last'.pos - 1) \in DecDigits
  /\ Depth \in 2..(STACK_MAX - 1)

\* The stack after this step is the stack S.
SameStack(S) ==
  /\ m_sp' = S.sp
  /\ m_tos' = S.tos
  /\ \A a \in S.sp..(StackEnd - 1) : ram'[a] = S.ram[a]
  /\ \A a \in 0..(VAR_MAX - 1) : ram'[a] = S.ram[a]

\* C20 amended: pick counts from 1 at the top element: on a stack a b
\* with room for one more element, 1p leaves the stack u leaves
\* (a b b) and 2p the stack o leaves (a b a), and the depth after n p
\* is the depth before the literal n plus one.
C20_PickFromTop ==
  [][PickStep =>
       /\ Depth' = Depth + 1
       /\ last'.S0.tos = 1 => SameStack(StackOp("u", Self(0)))
       /\ last'.S0.tos = 2 => SameStack(StackOp("o", Self(0)))]_vars

\* 2p has picked the second of two different elements.
C20_Witness ==
  /\ Picked
  /\ CharAt(last.pos - 1) = "2"
  /\ last.S0.tos = 2
  /\ depth(last.S0) = Depth
  /\ last.S0.ram[last.S0.sp] # last.S0.ram[last.S0.sp + 1]
  /\ m_tos = last.S0.ram[last.S0.sp + 1]

\* This step is an l on a stack low high block, block on top.
LoopStep ==
  /\ trail' # trail
  /\ last'.act = "op" /\ last'.op = "l"
  /\ depth(last'.S0) \in 3..STACK_MAX

LoopLow == last'.S0.ram[last'.S0.sp + 1]
LoopHigh == last'.S0.ram[last'.S0.sp]
LoopBlock == last'.S0.tos

\* C21: l on low high block removes its three operands and executes
\* block once for each i = low, low + 1, ..., high in ascending order
\* with i pushed right before each execution, high - low + 1 times for
\* low <= high and not at all for low > high, and then ends, for all
\* integers low and high, the largest one included, the executions of
\* block being successful.
C21_Loop ==
  [][/\ LoopStep /\ LoopLow > LoopHigh =>
          /\ Len(cs') = Len(cs)
          /\ Depth' = depth(last'.S0) - 3
     /\ LoopStep /\ LoopLow <= LoopHigh =>
          /\ Len(cs') = Len(cs) + 1
          /\ cs'[Len(cs')].script = LoopBlock
          /\ cs'[Len(cs)].wait = "l"
          /\ m_tos' = LoopLow
          /\ Depth' = depth(last'.S0) - 3 + 1
     /\ \A k \in 1..Len(cs) :
          cs[k].wait = "l" /\ rv = 0 /\ Len(cs') >= k /\ Len(cs) = k =>
            /\ cs'[k].wait = "none" => cs[k].i = cs[k].high
            /\ cs'[k].wait = "l" =>
                 /\ cs'[k].i = cs[k].i + 1
                 /\ cs'[k].i <= cs[k].high
                 /\ m_tos' = cs'[k].i
                 /\ Len(cs') = k + 1
                 /\ cs'[k + 1].script = cs[k].sp]_vars

\* This step is an iteration of execute() on the script in data memory.
ScriptStep ==
  /\ cs # << >> /\ Top.wait = "none" /\ Top.mem = "RAM"
  /\ steps' = steps + 1

\* The characters of a '-' at address a that is followed by a digit.
SignAt(a) == CharAt(a) = "-" /\ CharAt(a + 1) \in DecDigits

\* C22: wherever in a script a '-' is immediately followed by a decimal
\* digit, whatever precedes it, a digit run that ends right before it
\* included, the '-' is the sign of a negative literal and no subtraction
\* is performed; in every other position '-' is the subtraction.
C22_NegativeEscape ==
  [][ScriptStep =>
       /\ trail' # trail /\ last'.op = "-" => ~SignAt(last'.pos)
       /\ SignAt(Top.ip) =>
            last'.S0.tos <= 0 /\ ~(last'.op = "-" /\ last'.pos = Top.ip)
       /\ CharAt(Top.ip) = "-" /\ ~SignAt(Top.ip) =>
            last'.act = "op" /\ last'.op = "-" /\ last'.pos = Top.ip]_vars

\* ------------------------------------------------------------------ C23

\* C23: every read and every write of a parameter stack slot, by any
\* opcode and by push, pop and drop, addresses an element of m_stack,
\* m_stack[0] .. m_stack[STACK_MAX - 1], for every script, every depth
\* and every operand: no access through m_sp or m_fp has left the array.
C23_StackAccessInArray == oob = FALSE

\* ------------------------------------------------------------------ C24

\* The step did 'f' with an index w of an entry, 0 <= w < m_entries.
ForgetStep ==
  /\ trail' # trail
  /\ last'.act = "op"
  /\ last'.op = "f"
  /\ last'.S0.tos >= 0
  /\ last'.S0.tos < last'.S0.entries

\* The address of the null terminator of the string at a.
RECURSIVE StringEnd(_, _)
StringEnd(E, a) ==
  IF a \notin DOMAIN E \/ E[a] = 0 THEN a ELSE StringEnd(E, a + 1)

\* The name of entry i and, where ';' stored one, its block body.
NameOf(E, i) == eeprom_read_word(E, NameField(i))
HasBody(E, i) == eeprom_read_word(E, ValueField(i)) # 256 * Blank + Blank
BodyOf(E, i) == as_local("EEM", Wrap(eeprom_read_word(E, ValueField(i))))

\* C24: after 'f' with an index w, 0 <= w < m_entries, whatever names
\* were inserted and blocks copied before: m_entries = w, and for every
\* surviving entry i < w the bytes of its name and of the block body
\* stored for it, terminators included, lie below the new m_dp, so that
\* no later insertion or copy overwrites them.
C24_Forget ==
  [][ForgetStep =>
       /\ m_entries' = last'.S0.tos
       /\ \A i \in 0..(last'.S0.tos - 1) :
            /\ StringEnd(eeprom', NameOf(eeprom', i)) < m_dp'
            /\ HasBody(eeprom', i) =>
                 StringEnd(eeprom', BodyOf(eeprom', i)) < m_dp']_vars

\* ------------------------------------------------------------------ C25

\* The step constructed a new Shell over the eeprom.
RestartStep == last'.act = "host" /\ last'.op = "Shell" /\ calls' # calls

\* The names the script has looked up.
ScriptNames ==
  { NameAt(trail[k].pos) : k \in { j \in 1..Len(trail) : trail[j].op = BQ } }

\* The dictionary lookup() reads.
Dict(entries, E) == [entries |-> entries, eeprom |-> E]

\* C25: whatever dictionary the lookups, copies and forgets have left,
\* with any number of entries from 0 to VAR_MAX, a new Shell constructed
\* over the same eeprom has the same m_entries and m_dp, and every name
\* that resolved to an index resolves to the same index.
C25_Restart ==
  [][RestartStep =>
       /\ m_entries' = m_entries
       /\ m_dp' = m_dp
       /\ \A n \in ScriptNames :
            Matches(Dict(m_entries, eeprom), n) # {} =>
              /\ Matches(Dict(m_entries', eeprom'), n) # {}
              /\ lookup_res(Dict(m_entries', eeprom'), n)
                   = lookup_res(Dict(m_entries, eeprom), n)]_vars

============================================================================
